---- MODULE Spec2Model ----
(***************************************************************************)
(* Streaming tag transcoder of the qwen3 parsing proxy.                    *)
(*                                                                         *)
(* The model follows OpenAIAPIHandler.build_streaming_generator            *)
(* (src/app/services/openai_handler.py) and StreamProcessor /              *)
(* StreamingState (src/app/services/stream_processor.py).  Python strings  *)
(* are sequences of one-character strings; offsets are 0-based as in the   *)
(* source.  One session is modelled: content fragments, native tool-call   *)
(* chunks, metadata chunks and a finish chunk arrive from the upstream.    *)
(***************************************************************************)
EXTENDS Integers, Sequences, FiniteSets, TLC

(***************************************************************************)
(* Bounds of the model.                                                    *)
(***************************************************************************)
\* chunks received in one session
MaxChunks == 3
\* pieces concatenated to form a text that is delivered cut at arbitrary offsets
MaxPieces == 3
\* fragments such a text is cut into
MaxFragments == 2
\* largest index an upstream-native tool-call delta carries
MaxNativeIndex == 1

(***************************************************************************)
(* Python string helpers.                                                  *)
(***************************************************************************)
Min(a, b) == IF a <= b THEN a ELSE b

\* s[i:j] with 0 <= i <= j <= len(s)
Slice(s, i, j) == SubSeq(s, i + 1, j)

\* str.find(sub, start): leftmost 0-based offset >= start, or -1
Find(s, sub, start) ==
    LET hits == {i \in start..(Len(s) - Len(sub)) : Slice(s, i, i + Len(sub)) = sub}
    IN  IF hits = {} THEN -1 ELSE CHOOSE i \in hits : \A j \in hits : i <= j

Whitespace == {" ", "\n", "\t", "\r"}

RECURSIVE LStrip(_)
LStrip(s) == IF s # <<>> /\ Head(s) \in Whitespace THEN LStrip(Tail(s)) ELSE s

RECURSIVE RStrip(_)
RStrip(s) ==
    IF s # <<>> /\ s[Len(s)] \in Whitespace THEN RStrip(SubSeq(s, 1, Len(s) - 1)) ELSE s

\* str.strip()
Strip(s) == RStrip(LStrip(s))

(***************************************************************************)
(* The four tag literals.                                                  *)
(***************************************************************************)
THINK_OPEN == <<"<", "t", "h", "i", "n", "k", ">">>
THINK_CLOSE == <<"<", "/", "t", "h", "i", "n", "k", ">">>
TOOL_OPEN == <<"<", "t", "o", "o", "l", "_", "c", "a", "l", "l", ">">>
TOOL_CLOSE == <<"<", "/", "t", "o", "o", "l", "_", "c", "a", "l", "l", ">">>

(***************************************************************************)
(* JSON texts the upstream may place inside a tool-call block, and         *)
(* json.loads on them.  A JSON value is a record: kind, str (the Python    *)
(* string of a JSON string), dumps (its json.dumps text) and members (the  *)
(* dict of a JSON object, a function from keys to values).                 *)
(***************************************************************************)
\* {"name":"f","arguments":1}
CALL_JSON ==
    <<"{", "\"", "n", "a", "m", "e", "\"", ":", "\"", "f", "\"", ",",
      "\"", "a", "r", "g", "u", "m", "e", "n", "t", "s", "\"", ":", "1", "}">>
\* {"name":"f"}
NOARGS_JSON == <<"{", "\"", "n", "a", "m", "e", "\"", ":", "\"", "f", "\"", "}">>
\* {"name":1,"arguments":1}
NAMENUM_JSON ==
    <<"{", "\"", "n", "a", "m", "e", "\"", ":", "1", ",",
      "\"", "a", "r", "g", "u", "m", "e", "n", "t", "s", "\"", ":", "1", "}">>
\* [1]
ARRAY_JSON == <<"[", "1", "]">>

NoMembers == [k \in {} |-> 0]
JNumber(text) == [kind |-> "number", str |-> <<>>, dumps |-> text, members |-> NoMembers]
JString(chars) ==
    [kind |-> "string", str |-> chars, dumps |-> <<"\"">> \o chars \o <<"\"">>,
     members |-> NoMembers]
JArray(text) == [kind |-> "array", str |-> <<>>, dumps |-> text, members |-> NoMembers]
JObject(text, m) == [kind |-> "object", str |-> <<>>, dumps |-> text, members |-> m]

\* the documents, as json.loads decodes them
JsonDocs ==
    { [text |-> CALL_JSON,
       value |-> JObject(CALL_JSON, [k \in {"name", "arguments"} |->
                    IF k = "name" THEN JString(<<"f">>) ELSE JNumber(<<"1">>)])],
      [text |-> NOARGS_JSON,
       value |-> JObject(NOARGS_JSON, [k \in {"name"} |-> JString(<<"f">>)])],
      [text |-> NAMENUM_JSON,
       value |-> JObject(NAMENUM_JSON, [k \in {"name", "arguments"} |-> JNumber(<<"1">>)])],
      [text |-> ARRAY_JSON, value |-> JArray(ARRAY_JSON)] }

\* json.loads(text): surrounding JSON whitespace is skipped; every text that is
\* not one of the documents raises JSONDecodeError (ok = FALSE).  Within the
\* texts of this model no other text is valid JSON: a document followed or
\* preceded by anything but whitespace is "Extra data" / "Expecting value".
json_loads(text) ==
    LET body == Strip(text)
        docs == {d \in JsonDocs : d.text = body}
    IN  IF docs = {} THEN [ok |-> FALSE, value |-> JNumber(<<>>)]
        ELSE [ok |-> TRUE, value |-> (CHOOSE d \in docs : TRUE).value]

\* ContentParser._process_arguments: a string argument that is itself JSON is
\* re-serialised canonically, any other string is kept verbatim; every other
\* value is serialised with json.dumps.
ProcessArguments(v) ==
    IF v.kind = "string"
    THEN (IF json_loads(v.str).ok THEN json_loads(v.str).value.dumps ELSE v.str)
    ELSE v.dumps

(***************************************************************************)
(* Output events (the frames the generator yields).  None is "none".       *)
(***************************************************************************)
None == "none"
NoName == JNumber(<<>>)
Event(type) ==
    [type |-> type, text |-> <<>>, role |-> None, slot |-> -1, name |-> NoName,
     arguments |-> <<>>, calls |-> <<>>, reason |-> None]

ContentEvent(text, role) == [Event("content") EXCEPT !.text = text, !.role = role]
ReasoningEvent(text, role) == [Event("reasoning") EXCEPT !.text = text, !.role = role]
ToolCallNameEvent(slot, name, role) ==
    [Event("tool_name") EXCEPT !.slot = slot, !.name = name, !.role = role]
ToolCallArgsEvent(slot, args) == [Event("tool_args") EXCEPT !.slot = slot, !.arguments = args]
NativeEvent(calls, role) == [Event("native") EXCEPT !.calls = calls, !.role = role]
FinishEvent(reason, role) == [Event("finish") EXCEPT !.reason = reason, !.role = role]
PassthroughEvent == Event("passthrough")
ErrorEvent == Event("error")
DoneEvent == Event("done")

(***************************************************************************)
(* StreamingState and StreamProcessor.  Every yield_* operator returns the *)
(* state after the call (st) and the frames it yields (ev).                *)
(***************************************************************************)
StreamingState ==
    [content_buffer |-> <<>>, current_tool_call_index |-> 0, role_sent |-> FALSE,
     streamed_tool_calls_exist |-> FALSE, in_think_block |-> FALSE,
     in_tool_call_block |-> FALSE, tool_call_buffer |-> <<>>]

\* variant: </think> does not leave the think block
process_tag_actions_NoThinkClose(action, st) ==
    CASE action = "think_open" -> [st EXCEPT !.in_think_block = TRUE]
      [] action = "tool_call_open" ->
            [st EXCEPT !.in_tool_call_block = TRUE, !.tool_call_buffer = <<>>]
      [] action = "tool_call_close" -> [st EXCEPT !.in_tool_call_block = FALSE]
      [] OTHER -> st

process_tag_actions(action, st) ==
    CASE action = "think_open" -> [st EXCEPT !.in_think_block = TRUE]
      [] action = "think_close" -> [st EXCEPT !.in_think_block = FALSE]
      [] action = "tool_call_open" ->
            [st EXCEPT !.in_tool_call_block = TRUE, !.tool_call_buffer = <<>>]
      [] action = "tool_call_close" -> [st EXCEPT !.in_tool_call_block = FALSE]
      [] OTHER -> st

\* variant: <think> wins whenever it occurs, even after a <tool_call>
find_next_tag_ThinkFirst(content_buffer, start_idx, st) ==
    LET none == [pos |-> Len(content_buffer), action |-> "content", tag_len |-> 0]
    IN  IF ~st.in_think_block /\ ~st.in_tool_call_block
        THEN LET think_open_pos == Find(content_buffer, THINK_OPEN, start_idx)
                 tool_open_pos == Find(content_buffer, TOOL_OPEN, start_idx)
             IN  IF think_open_pos # -1
                 THEN [pos |-> think_open_pos, action |-> "think_open",
                       tag_len |-> Len(THINK_OPEN)]
                 ELSE IF tool_open_pos # -1
                 THEN [pos |-> tool_open_pos, action |-> "tool_call_open",
                       tag_len |-> Len(TOOL_OPEN)]
                 ELSE none
        ELSE IF st.in_think_block
        THEN LET think_close_pos == Find(content_buffer, THINK_CLOSE, start_idx)
             IN  IF think_close_pos # -1
                 THEN [pos |-> think_close_pos, action |-> "think_close",
                       tag_len |-> Len(THINK_CLOSE)]
                 ELSE none
        ELSE LET tool_close_pos == Find(content_buffer, TOOL_CLOSE, start_idx)
             IN  IF tool_close_pos # -1
                 THEN [pos |-> tool_close_pos, action |-> "tool_call_close",
                       tag_len |-> Len(TOOL_CLOSE)]
                 ELSE none

\* variant: <tool_call> is also looked for inside a think block
find_next_tag_Nesting(content_buffer, start_idx, st) ==
    LET none == [pos |-> Len(content_buffer), action |-> "content", tag_len |-> 0]
    IN  IF ~st.in_tool_call_block
        THEN LET think_pos == Find(content_buffer,
                                   IF st.in_think_block THEN THINK_CLOSE ELSE THINK_OPEN,
                                   start_idx)
                 tool_open_pos == Find(content_buffer, TOOL_OPEN, start_idx)
                 first == IF think_pos # -1
                          THEN IF st.in_think_block
                               THEN [pos |-> think_pos, action |-> "think_close",
                                     tag_len |-> Len(THINK_CLOSE)]
                               ELSE [pos |-> think_pos, action |-> "think_open",
                                     tag_len |-> Len(THINK_OPEN)]
                          ELSE none
             IN  IF tool_open_pos # -1
                    /\ (first.action = "content" \/ tool_open_pos < first.pos)
                 THEN [pos |-> tool_open_pos, action |-> "tool_call_open",
                       tag_len |-> Len(TOOL_OPEN)]
                 ELSE first
        ELSE LET tool_close_pos == Find(content_buffer, TOOL_CLOSE, start_idx)
             IN  IF tool_close_pos # -1
                 THEN [pos |-> tool_close_pos, action |-> "tool_call_close",
                       tag_len |-> Len(TOOL_CLOSE)]
                 ELSE none

\* (position, action, tag_length)
find_next_tag(content_buffer, start_idx, st) ==
    LET none == [pos |-> Len(content_buffer), action |-> "content", tag_len |-> 0]
    IN  IF ~st.in_think_block /\ ~st.in_tool_call_block
        THEN LET think_open_pos == Find(content_buffer, THINK_OPEN, start_idx)
                 tool_open_pos == Find(content_buffer, TOOL_OPEN, start_idx)
                 first == IF think_open_pos # -1
                          THEN [pos |-> think_open_pos, action |-> "think_open",
                                tag_len |-> Len(THINK_OPEN)]
                          ELSE none
             IN  IF tool_open_pos # -1
                    /\ (first.action = "content" \/ tool_open_pos < first.pos)
                 THEN [pos |-> tool_open_pos, action |-> "tool_call_open",
                       tag_len |-> Len(TOOL_OPEN)]
                 ELSE first
        ELSE IF st.in_think_block
        THEN LET think_close_pos == Find(content_buffer, THINK_CLOSE, start_idx)
             IN  IF think_close_pos # -1
                 THEN [pos |-> think_close_pos, action |-> "think_close",
                       tag_len |-> Len(THINK_CLOSE)]
                 ELSE none
        ELSE LET tool_close_pos == Find(content_buffer, TOOL_CLOSE, start_idx)
             IN  IF tool_close_pos # -1
                 THEN [pos |-> tool_close_pos, action |-> "tool_call_close",
                       tag_len |-> Len(TOOL_CLOSE)]
                 ELSE none

\* the role is attached to a frame only while it has not been sent
RoleOn(st, role_to_yield) == IF role_to_yield # None /\ ~st.role_sent THEN role_to_yield ELSE None
MarkRole(st, role_to_yield) ==
    IF role_to_yield # None /\ ~st.role_sent THEN [st EXCEPT !.role_sent = TRUE] ELSE st

\* variant: the segment is yielded without its outer whitespace
yield_content_segment_Stripped(st, content_segment, role_to_yield) ==
    IF Strip(content_segment) = <<>>
    THEN [st |-> st, ev |-> <<>>]
    ELSE [st |-> MarkRole(st, role_to_yield),
          ev |-> << IF st.in_think_block
                    THEN ReasoningEvent(Strip(content_segment), RoleOn(st, role_to_yield))
                    ELSE ContentEvent(Strip(content_segment), RoleOn(st, role_to_yield)) >>]

\* variant: text inside a think block is yielded as content
yield_content_segment_AlwaysContent(st, content_segment, role_to_yield) ==
    IF content_segment = <<>>
    THEN [st |-> st, ev |-> <<>>]
    ELSE [st |-> MarkRole(st, role_to_yield),
          ev |-> <<ContentEvent(content_segment, RoleOn(st, role_to_yield))>>]

yield_content_segment(st, content_segment, role_to_yield) ==
    IF content_segment = <<>>
    THEN [st |-> st, ev |-> <<>>]
    ELSE [st |-> MarkRole(st, role_to_yield),
          ev |-> << IF st.in_think_block
                    THEN ReasoningEvent(content_segment, RoleOn(st, role_to_yield))
                    ELSE ContentEvent(content_segment, RoleOn(st, role_to_yield)) >>]

\* variant: the closing tag is not put back
yield_raw_tool_content_NoCloseTag(st, role_to_yield) ==
    yield_content_segment(st, TOOL_OPEN \o st.tool_call_buffer, role_to_yield)

yield_raw_tool_content(st, role_to_yield) ==
    yield_content_segment(st, TOOL_OPEN \o st.tool_call_buffer \o TOOL_CLOSE, role_to_yield)

yield_tool_call_name_chunk(st, name, role_to_yield) ==
    [st |-> MarkRole(st, role_to_yield),
     ev |-> <<ToolCallNameEvent(st.current_tool_call_index, name, RoleOn(st, role_to_yield))>>]

\* variant: the arguments frame is given the slot after the name frame's
yield_tool_call_args_chunk_NextSlot(st, arguments_str) ==
    [st |-> st, ev |-> <<ToolCallArgsEvent(st.current_tool_call_index + 1, arguments_str)>>]

yield_tool_call_args_chunk(st, arguments_str) ==
    [st |-> st, ev |-> <<ToolCallArgsEvent(st.current_tool_call_index, arguments_str)>>]

yield_native_tool_call(st, current_chunk_tool_calls, role_to_yield) ==
    [st |-> MarkRole(st, role_to_yield),
     ev |-> <<NativeEvent(current_chunk_tool_calls, RoleOn(st, role_to_yield))>>]

\* the json.loads call and the structure test of process_tool_call_close
ToolCallData(st) == json_loads(Strip(st.tool_call_buffer))
WellFormed(data) ==
    /\ data.ok
    /\ data.value.kind = "object"
    /\ "name" \in DOMAIN data.value.members
    /\ "arguments" \in DOMAIN data.value.members

\* variant: the buffer is cleared only when the block decoded
process_tool_call_close_KeepOnFailure(st, role_to_yield) ==
    LET tool_call_data == ToolCallData(st)
    IN  IF WellFormed(tool_call_data)
        THEN LET arguments_str == ProcessArguments(tool_call_data.value.members["arguments"])
                 n == yield_tool_call_name_chunk(
                          st, tool_call_data.value.members["name"], role_to_yield)
                 a == yield_tool_call_args_chunk(n.st, arguments_str)
             IN  [st |-> [a.st EXCEPT
                            !.current_tool_call_index = a.st.current_tool_call_index + 1,
                            !.streamed_tool_calls_exist = TRUE,
                            !.tool_call_buffer = <<>>],
                  ev |-> n.ev \o a.ev]
        ELSE yield_raw_tool_content(st, role_to_yield)

process_tool_call_close(st, role_to_yield) ==
    LET tool_call_data == ToolCallData(st)
        r == IF WellFormed(tool_call_data)
             THEN LET arguments_str == ProcessArguments(tool_call_data.value.members["arguments"])
                      n == yield_tool_call_name_chunk(
                               st, tool_call_data.value.members["name"], role_to_yield)
                      a == yield_tool_call_args_chunk(n.st, arguments_str)
                  IN  [st |-> [a.st EXCEPT
                                 !.current_tool_call_index = a.st.current_tool_call_index + 1,
                                 !.streamed_tool_calls_exist = TRUE],
                       ev |-> n.ev \o a.ev]
             ELSE yield_raw_tool_content(st, role_to_yield)
    IN  [st |-> [r.st EXCEPT !.tool_call_buffer = <<>>], ev |-> r.ev]

\* variant: the upstream reason is always passed through
yield_finish_chunk_NoOverride(st, finish_reason, role_to_yield) ==
    [st |-> st, ev |-> <<FinishEvent(finish_reason, RoleOn(st, role_to_yield))>>]

yield_finish_chunk(st, finish_reason, role_to_yield) ==
    LET final_reason == IF st.streamed_tool_calls_exist /\ finish_reason = "stop"
                        THEN "tool_calls" ELSE finish_reason
    IN  [st |-> st, ev |-> <<FinishEvent(final_reason, RoleOn(st, role_to_yield))>>]

(***************************************************************************)
(* The session: build_streaming_generator.stream_generator.                *)
(***************************************************************************)
VARIABLES
    state,                 \* the StreamingState of the session
    pc,                    \* "next": waiting for the next chunk; "scan": in the
                           \* while loop of a chunk; "finally": the for loop was
                           \* left; "done": [DONE] was yielded
    out,                   \* the frames yielded so far
    role_to_yield,         \* role_to_yield_on_first_delta of the current chunk
    finish_reason,         \* choice.finish_reason of the current chunk
    processed_upto,        \* processed_upto_buffer_idx
    delivered,             \* the content text received so far, all chunks together
    cuts,                  \* the offsets of delivered at which a chunk ended
    nchunks,               \* chunks received
    opened_at,             \* the offset of delivered right after the opening tag
                           \* the scan recognised last
    received,              \* the chunks received, where sessions run side by side
    other,                 \* a second session, suspended while this one runs
    finish_seen,           \* a chunk received so far carried a finish reason
    response               \* the upstream's answer to a non-streaming request and
                           \* what is returned for it

vars ==
    <<state, pc, out, role_to_yield, finish_reason, processed_upto, delivered, cuts,
      nchunks, opened_at, received, other, finish_seen, response>>

RECURSIVE Concat(_)
Concat(ss) == IF ss = <<>> THEN <<>> ELSE Head(ss) \o Concat(Tail(ss))

\* the body of a tool-call block as the model writes it: the JSON on its own line
CALL_BLOCK == <<"\n">> \o CALL_JSON \o <<"\n">>

\* Contents of one chunk when the upstream cuts its text between tags and bodies.
ChunkTexts ==
    { <<>>, <<"a">>, THINK_OPEN, THINK_CLOSE, TOOL_OPEN, TOOL_CLOSE, CALL_BLOCK,
      NOARGS_JSON, NAMENUM_JSON, ARRAY_JSON,
      TOOL_OPEN \o CALL_BLOCK \o TOOL_CLOSE }
\* content of the chunk that carries the finish reason
FinalChunkTexts == { <<>>, <<"a">> }
\* content that arrives in the same chunk as native tool calls
NativeChunkTexts == { <<>>, <<"a">> }

\* Texts delivered cut at arbitrary offsets: up to MaxPieces pieces.
Pieces == { <<" ", "a", " ">>, THINK_OPEN, THINK_CLOSE, TOOL_OPEN, TOOL_CLOSE, CALL_BLOCK }
Inputs == {Concat(ps) : ps \in UNION {[1..n -> Pieces] : n \in 0..MaxPieces}}
IsPrefix(p, s) == Len(p) <= Len(s) /\ SubSeq(s, 1, Len(p)) = p
\* the fragments that may follow the text d: every continuation towards an input
Fragments(d) ==
    {<<>>} \cup UNION { {SubSeq(i, Len(d) + 1, j) : j \in (Len(d) + 1)..Len(i)} :
                         i \in {x \in Inputs : IsPrefix(d, x)} }

Roles == {None, "assistant"}
FinishReasons == {"stop", "tool_calls", "length"}
\* finish reasons of a chunk of a text cut at arbitrary offsets
FragmentFinishReasons == {None, "stop"}

\* upstream-native tool-call deltas: index may be None (NoneIndex)
NoneIndex == -1
NativeIndexes == {NoneIndex} \cup 0..MaxNativeIndex
NativeCall(index) == [index |-> index, id |-> "call_native", type |-> "function"]
NativeCallLists ==
    {<<NativeCall(i)>> : i \in NativeIndexes} \cup {<<NativeCall(1), NativeCall(0)>>}

\* tc.model_dump(exclude_none=True): the fields as received, a None index left out
model_dump(tc) == tc

\* a session as build_streaming_generator creates it (lines 98-99), suspended
NewSession ==
    [state |-> StreamingState, pc |-> "next", out |-> <<>>, role_to_yield |-> None,
     finish_reason |-> None, processed_upto |-> 0, delivered |-> <<>>, cuts |-> {},
     nchunks |-> 0, opened_at |-> 0, received |-> <<>>, finish_seen |-> FALSE]

\* no non-streaming request has been answered
NoResponse ==
    [content |-> <<>>, finish |-> None, native |-> <<>>, role |-> None,
     answered |-> FALSE, returned |-> FALSE,
     message |-> [role |-> None, content |-> <<>>, reasoning_content |-> <<>>,
                  tool_calls |-> <<>>],
     finish_reason |-> None]

Init ==
    /\ state = StreamingState
    /\ pc = "next"
    /\ out = <<>>
    /\ role_to_yield = None
    /\ finish_reason = None
    /\ processed_upto = 0
    /\ delivered = <<>>
    /\ cuts = {}
    /\ nchunks = 0
    /\ opened_at = 0
    /\ received = <<>>
    /\ other = NewSession
    /\ finish_seen = FALSE
    /\ response = NoResponse

\* lines 120-131
RoleForFirstDelta(st, chunk_role, chunk_content, chunk_tool_calls) ==
    IF ~st.role_sent
    THEN IF chunk_role # None THEN chunk_role
         ELSE IF chunk_content # <<>> \/ chunk_tool_calls # <<>> THEN "assistant"
         ELSE None
    ELSE None

\* variant: a chunk without choices abandons the block being parsed
ReceiveMeta_ResetMode ==
    /\ UNCHANGED <<opened_at, received, other, finish_seen, response>>
    /\ pc = "next"
    /\ nchunks < MaxChunks
    /\ nchunks' = nchunks + 1
    /\ out' = Append(out, PassthroughEvent)
    /\ state' = [state EXCEPT !.in_think_block = FALSE, !.in_tool_call_block = FALSE,
                               !.tool_call_buffer = <<>>]
    /\ UNCHANGED <<pc, role_to_yield, finish_reason, processed_upto, delivered, cuts>>

\* lines 100-109: a chunk without choices is yielded as it is
ReceiveMeta ==
    /\ UNCHANGED <<opened_at, received, other, finish_seen, response>>
    /\ pc = "next"
    /\ nchunks < MaxChunks
    /\ nchunks' = nchunks + 1
    /\ out' = Append(out, PassthroughEvent)
    /\ UNCHANGED <<state, pc, role_to_yield, finish_reason, processed_upto, delivered, cuts>>

\* variant: a native chunk does not count as a tool call
HandleNative_NoFlag(st, chunk_role, chunk_content, chunk_tool_calls) ==
    LET role == RoleForFirstDelta(st, chunk_role, chunk_content, chunk_tool_calls)
        reset == [st EXCEPT !.in_think_block = FALSE, !.in_tool_call_block = FALSE,
                            !.tool_call_buffer = <<>>, !.content_buffer = <<>>]
        y == yield_native_tool_call(
                 reset, [i \in DOMAIN chunk_tool_calls |-> model_dump(chunk_tool_calls[i])],
                 role)
        last_tool_call == chunk_tool_calls[Len(chunk_tool_calls)]
        indexed == IF last_tool_call.index # NoneIndex
                   THEN [y.st EXCEPT !.current_tool_call_index = last_tool_call.index + 1]
                   ELSE y.st
    IN  [st |-> [indexed EXCEPT !.content_buffer = @ \o chunk_content], ev |-> y.ev]

\* lines 133-159 as a function of the state and the chunk
HandleNative(st, chunk_role, chunk_content, chunk_tool_calls) ==
    LET role == RoleForFirstDelta(st, chunk_role, chunk_content, chunk_tool_calls)
        reset == [st EXCEPT !.in_think_block = FALSE, !.in_tool_call_block = FALSE,
                            !.tool_call_buffer = <<>>, !.content_buffer = <<>>]
        y == yield_native_tool_call(
                 reset, [i \in DOMAIN chunk_tool_calls |-> model_dump(chunk_tool_calls[i])],
                 role)
        last_tool_call == chunk_tool_calls[Len(chunk_tool_calls)]
        indexed == IF last_tool_call.index # NoneIndex
                   THEN [y.st EXCEPT !.current_tool_call_index = last_tool_call.index + 1]
                   ELSE y.st
    IN  [st |-> [indexed EXCEPT !.streamed_tool_calls_exist = TRUE,
                                !.content_buffer = @ \o chunk_content],
         ev |-> y.ev]

\* a chunk with native tool calls (lines 111-159); its finish reason is not read
ReceiveNative ==
    /\ UNCHANGED <<opened_at, received, other, response>>
    /\ pc = "next"
    /\ nchunks < MaxChunks
    /\ \E chunk_role \in Roles, chunk_content \in NativeChunkTexts,
          chunk_tool_calls \in NativeCallLists, chunk_finish \in {None} \cup FinishReasons :
          LET r == HandleNative(state, chunk_role, chunk_content, chunk_tool_calls)
          IN  /\ state' = r.st
              /\ out' = out \o r.ev
              /\ delivered' = delivered \o chunk_content
              /\ cuts' = cuts \cup {Len(delivered) + Len(chunk_content)}
              /\ finish_seen' = (finish_seen \/ chunk_finish # None)
    /\ nchunks' = nchunks + 1
    /\ UNCHANGED <<pc, role_to_yield, finish_reason, processed_upto>>

\* variant: every chunk is scanned from the Plain mode
ReceiveDelta_ResetMode(Contents, Reasons) ==
    /\ UNCHANGED <<opened_at, received, other, response>>
    /\ pc = "next"
    /\ \E chunk_role \in Roles, chunk_content \in Contents, chunk_finish \in Reasons :
          /\ role_to_yield' = RoleForFirstDelta(state, chunk_role, chunk_content, <<>>)
          /\ finish_reason' = chunk_finish
          /\ finish_seen' = (finish_seen \/ chunk_finish # None)
          /\ state' = [state EXCEPT !.content_buffer = @ \o chunk_content,
                                    !.in_think_block = FALSE,
                                    !.in_tool_call_block = FALSE]
          /\ delivered' = delivered \o chunk_content
          /\ cuts' = cuts \cup {Len(delivered) + Len(chunk_content)}
    /\ processed_upto' = 0
    /\ pc' = "scan"
    /\ nchunks' = nchunks + 1
    /\ UNCHANGED out

\* a chunk without native tool calls: lines 111-131 and 161-166
ReceiveDelta(Contents, Reasons) ==
    /\ UNCHANGED <<opened_at, received, other, response>>
    /\ pc = "next"
    /\ \E chunk_role \in Roles, chunk_content \in Contents, chunk_finish \in Reasons :
          /\ role_to_yield' = RoleForFirstDelta(state, chunk_role, chunk_content, <<>>)
          /\ finish_reason' = chunk_finish
          /\ finish_seen' = (finish_seen \/ chunk_finish # None)
          /\ state' = [state EXCEPT !.content_buffer = @ \o chunk_content]
          /\ delivered' = delivered \o chunk_content
          /\ cuts' = cuts \cup {Len(delivered) + Len(chunk_content)}
    /\ processed_upto' = 0
    /\ pc' = "scan"
    /\ nchunks' = nchunks + 1
    /\ UNCHANGED out

\* a content chunk; the text arrives cut between tags and bodies
ReceiveChunk ==
    /\ nchunks < MaxChunks
    /\ ReceiveDelta(ChunkTexts, {None})

\* the chunk that carries the finish reason
ReceiveFinal ==
    /\ nchunks < MaxChunks
    /\ ReceiveDelta(FinalChunkTexts, FinishReasons)

\* a content chunk, with or without finish reason; the text arrives cut at
\* arbitrary offsets
ReceiveFragment ==
    /\ nchunks < MaxFragments
    /\ ReceiveDelta(Fragments(delivered), FragmentFinishReasons)

\* variant: a segment inside a tool-call block is yielded like any other
LoopBody_EmitInToolCall(st, idx, role) ==
    LET m == find_next_tag(st.content_buffer, idx, st)
        segment_end == Min(m.pos, Len(st.content_buffer))
        content_segment == Slice(st.content_buffer, idx, segment_end)
        seg == yield_content_segment(st, content_segment, role)
    IN  IF m.action # "content" /\ segment_end < Len(st.content_buffer)
        THEN LET tagged == process_tag_actions(m.action, seg.st)
                 closed == IF m.action = "tool_call_close"
                           THEN process_tool_call_close(tagged, role)
                           ELSE [st |-> tagged, ev |-> <<>>]
             IN  [st |-> closed.st, ev |-> seg.ev \o closed.ev,
                  idx |-> segment_end + m.tag_len]
        ELSE [st |-> seg.st, ev |-> seg.ev, idx |-> segment_end]

\* variant: the offset is not moved past the tag
LoopBody_NoAdvance(st, idx, role) ==
    LET m == find_next_tag(st.content_buffer, idx, st)
        segment_end == Min(m.pos, Len(st.content_buffer))
        content_segment == Slice(st.content_buffer, idx, segment_end)
        seg == IF content_segment # <<>> /\ st.in_tool_call_block
               THEN [st |-> [st EXCEPT !.tool_call_buffer = @ \o content_segment],
                     ev |-> <<>>]
               ELSE yield_content_segment(st, content_segment, role)
    IN  IF m.action # "content" /\ segment_end < Len(st.content_buffer)
        THEN LET tagged == process_tag_actions(m.action, seg.st)
                 closed == IF m.action = "tool_call_close"
                           THEN process_tool_call_close(tagged, role)
                           ELSE [st |-> tagged, ev |-> <<>>]
             IN  [st |-> closed.st, ev |-> seg.ev \o closed.ev,
                  idx |-> segment_end]
        ELSE [st |-> seg.st, ev |-> seg.ev, idx |-> segment_end]

\* one iteration of the while loop, lines 167-206
LoopBody(st, idx, role) ==
    LET m == find_next_tag(st.content_buffer, idx, st)
        segment_end == Min(m.pos, Len(st.content_buffer))
        content_segment == Slice(st.content_buffer, idx, segment_end)
        seg == IF content_segment # <<>> /\ st.in_tool_call_block
               THEN [st |-> [st EXCEPT !.tool_call_buffer = @ \o content_segment],
                     ev |-> <<>>]
               ELSE yield_content_segment(st, content_segment, role)
    IN  IF m.action # "content" /\ segment_end < Len(st.content_buffer)
        THEN LET tagged == process_tag_actions(m.action, seg.st)
                 closed == IF m.action = "tool_call_close"
                           THEN process_tool_call_close(tagged, role)
                           ELSE [st |-> tagged, ev |-> <<>>]
             IN  [st |-> closed.st, ev |-> seg.ev \o closed.ev,
                  idx |-> segment_end + m.tag_len]
        ELSE [st |-> seg.st, ev |-> seg.ev, idx |-> segment_end]

LoopIter ==
    /\ pc = "scan"
    /\ processed_upto < Len(state.content_buffer)
    /\ LET r == LoopBody(state, processed_upto, role_to_yield)
           m == find_next_tag(state.content_buffer, processed_upto, state)
       IN  /\ state' = r.st
           /\ out' = out \o r.ev
           /\ processed_upto' = r.idx
           /\ opened_at' = IF m.action \in {"think_open", "tool_call_open"}
                           THEN Len(delivered) - Len(state.content_buffer) + r.idx
                           ELSE opened_at
    /\ UNCHANGED <<received, other, finish_seen, response>>
    /\ UNCHANGED <<pc, role_to_yield, finish_reason, delivered, cuts, nchunks>>

\* variant: an unterminated block is dropped at the finish
HandleFinish_NoFlush(st, reason, role) == yield_finish_chunk(st, reason, role)

\* lines 209-236: the buffer is cut, then the finish reason is handled
HandleFinish(st, reason, role) ==
    LET flush == IF st.in_tool_call_block /\ st.tool_call_buffer # <<>>
                 THEN yield_content_segment(st, TOOL_OPEN \o st.tool_call_buffer, role)
                 ELSE IF st.in_think_block /\ st.content_buffer # <<>>
                 THEN yield_content_segment(st, st.content_buffer, role)
                 ELSE [st |-> st, ev |-> <<>>]
        fin == yield_finish_chunk(flush.st, reason, role)
    IN  [st |-> fin.st, ev |-> flush.ev \o fin.ev]

\* variant: the for loop goes on after the finish frame
EndLoop_NoBreak ==
    /\ UNCHANGED <<opened_at, received, other, finish_seen, response>>
    /\ pc = "scan"
    /\ processed_upto >= Len(state.content_buffer)
    /\ LET cut == [state EXCEPT
                     !.content_buffer = Slice(@, processed_upto, Len(@))]
       IN  IF finish_reason # None
           THEN LET r == HandleFinish(cut, finish_reason, role_to_yield)
                IN  /\ state' = r.st
                    /\ out' = out \o r.ev
                    /\ pc' = "next"
                    /\ role_to_yield' = None
                    /\ finish_reason' = None
                    /\ processed_upto' = 0
           ELSE /\ state' = cut
                /\ out' = out
                /\ pc' = "next"
                /\ role_to_yield' = None
                /\ finish_reason' = None
                /\ processed_upto' = 0
    /\ UNCHANGED <<delivered, cuts, nchunks>>

\* variant: the processed part of the buffer is not cut off
EndLoop_NoCut ==
    /\ UNCHANGED <<opened_at, received, other, finish_seen, response>>
    /\ pc = "scan"
    /\ processed_upto >= Len(state.content_buffer)
    /\ LET cut == state
       IN  IF finish_reason # None
           THEN LET r == HandleFinish(cut, finish_reason, role_to_yield)
                IN  /\ state' = r.st
                    /\ out' = out \o r.ev
                    /\ pc' = "finally"
                    /\ UNCHANGED <<role_to_yield, finish_reason, processed_upto>>
           ELSE /\ state' = cut
                /\ out' = out
                /\ pc' = "next"
                /\ role_to_yield' = None
                /\ finish_reason' = None
                /\ processed_upto' = 0
    /\ UNCHANGED <<delivered, cuts, nchunks>>

\* lines 209-236: the end of the while loop, the cut of the buffer, the finish
EndLoop ==
    /\ UNCHANGED <<opened_at, received, other, finish_seen, response>>
    /\ pc = "scan"
    /\ processed_upto >= Len(state.content_buffer)
    /\ LET cut == [state EXCEPT
                     !.content_buffer = Slice(@, processed_upto, Len(@))]
       IN  IF finish_reason # None
           THEN LET r == HandleFinish(cut, finish_reason, role_to_yield)
                IN  /\ state' = r.st
                    /\ out' = out \o r.ev
                    /\ pc' = "finally"
                    /\ UNCHANGED <<role_to_yield, finish_reason, processed_upto>>
           ELSE /\ state' = cut
                /\ out' = out
                /\ pc' = "next"
                /\ role_to_yield' = None
                /\ finish_reason' = None
                /\ processed_upto' = 0
    /\ UNCHANGED <<delivered, cuts, nchunks>>

\* the upstream iterator is exhausted: the for loop ends
Exhaust ==
    /\ UNCHANGED <<opened_at, received, other, finish_seen, response>>
    /\ pc = "next"
    /\ pc' = "finally"
    /\ UNCHANGED <<state, out, role_to_yield, finish_reason, processed_upto, delivered,
                   cuts, nchunks>>

\* lines 238-250: an exception raised while waiting for or processing a chunk
Fault ==
    /\ UNCHANGED <<opened_at, received, other, finish_seen, response>>
    /\ pc \in {"next", "scan"}
    /\ out' = Append(out, ErrorEvent)
    /\ pc' = "finally"
    /\ UNCHANGED <<state, role_to_yield, finish_reason, processed_upto, delivered, cuts,
                   nchunks>>

\* variant: the sentinel is not yielded
Done_NoSentinel ==
    /\ UNCHANGED <<opened_at, received, other, finish_seen, response>>
    /\ pc = "finally"
    /\ pc' = "done"
    /\ UNCHANGED <<state, out, role_to_yield, finish_reason, processed_upto, delivered,
                   cuts, nchunks>>

\* lines 251-253
Done ==
    /\ UNCHANGED <<opened_at, received, other, finish_seen, response>>
    /\ pc = "finally"
    /\ out' = Append(out, DoneEvent)
    /\ pc' = "done"
    /\ UNCHANGED <<state, role_to_yield, finish_reason, processed_upto, delivered,
                   cuts, nchunks>>

\* A session whose chunks are of every kind.
Next ==
    \/ ReceiveMeta
    \/ ReceiveNative
    \/ ReceiveChunk
    \/ ReceiveFinal
    \/ LoopIter
    \/ EndLoop
    \/ Exhaust
    \/ Fault
    \/ Done

Spec == Init /\ [][Next]_vars

\* A session that delivers one text as content fragments cut at arbitrary offsets.
SplitNext ==
    \/ ReceiveFragment
    \/ LoopIter
    \/ EndLoop
    \/ Exhaust
    \/ Done

SplitSpec == Init /\ [][SplitNext]_vars

(***************************************************************************)
(* Two sessions side by side.  Each call of build_streaming_generator      *)
(* creates its own StreamingState and its own generator; the server        *)
(* resumes whichever generator it wants next.  The variables hold the      *)
(* session that is running, other the one that is suspended.               *)
(***************************************************************************)
\* Chunks of the sessions run side by side: at most MaxPairChunks each.
MaxPairChunks == 2
PairChunks ==
    [role : {None}, content : {THINK_OPEN, <<"a">>, TOOL_OPEN \o CALL_BLOCK \o TOOL_CLOSE},
     tool_calls : {<<>>}, finish : {None, "stop"}]
      \cup {[role |-> None, content |-> <<>>, tool_calls |-> <<NativeCall(0)>>,
             finish |-> None]}

\* lines 111-166 for the chunk received
PairReceive ==
    /\ pc = "next"
    /\ nchunks < MaxPairChunks
    /\ \E chunk \in PairChunks :
          /\ received' = Append(received, chunk)
          /\ finish_seen' = (finish_seen \/ chunk.finish # None)
          /\ delivered' = delivered \o chunk.content
          /\ cuts' = cuts \cup {Len(delivered) + Len(chunk.content)}
          /\ IF chunk.tool_calls # <<>>
             THEN LET r == HandleNative(state, chunk.role, chunk.content, chunk.tool_calls)
                  IN  /\ state' = r.st
                      /\ out' = out \o r.ev
                      /\ UNCHANGED <<pc, role_to_yield, finish_reason, processed_upto>>
             ELSE /\ role_to_yield' =
                        RoleForFirstDelta(state, chunk.role, chunk.content, <<>>)
                  /\ finish_reason' = chunk.finish
                  /\ state' = [state EXCEPT !.content_buffer = @ \o chunk.content]
                  /\ processed_upto' = 0
                  /\ pc' = "scan"
                  /\ UNCHANGED out
    /\ nchunks' = nchunks + 1
    /\ UNCHANGED <<opened_at, other, response>>

\* the session that is running
Running ==
    [state |-> state, pc |-> pc, out |-> out, role_to_yield |-> role_to_yield,
     finish_reason |-> finish_reason, processed_upto |-> processed_upto,
     delivered |-> delivered, cuts |-> cuts, nchunks |-> nchunks,
     opened_at |-> opened_at, received |-> received, finish_seen |-> finish_seen]

\* variant: one StreamingState for the whole process
SessionState_Shared(own, current) == current

\* the StreamingState a resumed generator works on: the one its own call of
\* build_streaming_generator created (line 98)
SessionState(own, current) == own

\* the running generator is suspended and the other one resumed
Swap ==
    /\ other' = Running
    /\ state' = SessionState(other.state, state)
    /\ pc' = other.pc
    /\ out' = other.out
    /\ role_to_yield' = other.role_to_yield
    /\ finish_reason' = other.finish_reason
    /\ processed_upto' = other.processed_upto
    /\ delivered' = other.delivered
    /\ cuts' = other.cuts
    /\ nchunks' = other.nchunks
    /\ opened_at' = other.opened_at
    /\ received' = other.received
    /\ finish_seen' = other.finish_seen
    /\ UNCHANGED response

PairNext ==
    \/ PairReceive
    \/ LoopIter
    \/ EndLoop
    \/ Exhaust
    \/ Done
    \/ Swap

PairSpec == Init /\ [][PairNext]_vars

(***************************************************************************)
(* Properties.                                                             *)
(***************************************************************************)
Indexes(type) == {i \in DOMAIN out : out[i].type = type}
ToolCallTypes == {"tool_name", "native"}
TextTypes == {"content", "reasoning"}
\* the frames that carry a choice delta
DeltaTypes == {"content", "reasoning", "tool_name", "tool_args", "native", "finish"}

(***************************************************************************)
(* The batch transcoder runs the scan / transition / emit loop over the    *)
(* whole text, from a fresh state, until the text is used up.              *)
(***************************************************************************)
RECURSIVE BatchLoop(_, _)
BatchLoop(st, idx) ==
    IF idx >= Len(st.content_buffer)
    THEN [st |-> st, ev |-> <<>>]
    ELSE LET r == LoopBody(st, idx, None)
             rest == BatchLoop(r.st, r.idx)
         IN  [st |-> rest.st, ev |-> r.ev \o rest.ev]

parse_and_clean_content(text) == BatchLoop([StreamingState EXCEPT !.content_buffer = text], 0)

\* every block of the text is closed
Terminated(text) ==
    LET st == parse_and_clean_content(text).st
    IN  ~st.in_think_block /\ ~st.in_tool_call_block

\* What a frame sequence carries: its content text, reasoning text and tool
\* calls in order, adjacent texts of the same type joined, roles and slots
\* left out.
RECURSIVE Carried(_)
Carried(evs) ==
    IF evs = <<>>
    THEN <<>>
    ELSE LET e == Head(evs)
             rest == Carried(Tail(evs))
         IN  IF e.type \notin TextTypes \cup {"tool_name", "tool_args"}
             THEN rest
             ELSE IF e.type \in TextTypes /\ rest # <<>> /\ Head(rest).type = e.type
             THEN <<[Head(rest) EXCEPT !.text = e.text \o @]>> \o Tail(rest)
             ELSE <<[type |-> e.type, text |-> e.text, name |-> e.name,
                     arguments |-> e.arguments]>> \o rest

\* the text arrived in one content fragment
OneFragment == cuts \subseteq {0, Len(delivered)}

\* C1: a text whose blocks are all closed, delivered in fragments cut at any
\* offsets, has carried at the end of the session the same content text,
\* reasoning text and tool calls, in the same order, as the batch transcoder
\* yields for the whole text.
C1_SplitInvariance ==
    (pc = "done" /\ Terminated(delivered))
        => Carried(out) = Carried(parse_and_clean_content(delivered).ev)

\* the tags the scanner looks for in the mode of st
LegalTags(st) ==
    IF st.in_think_block THEN {THINK_CLOSE}
    ELSE IF st.in_tool_call_block THEN {TOOL_CLOSE}
    ELSE {THINK_OPEN, TOOL_OPEN}

IsSuffix(p, s) == Len(p) <= Len(s) /\ SubSeq(s, Len(s) - Len(p) + 1, Len(s)) = p

\* the longest tail of buf that is a non-empty proper prefix of a legal tag
PartialTagTail(buf, st) ==
    LET tails == {p \in UNION { {SubSeq(tag, 1, n) : n \in 1..(Len(tag) - 1)} :
                                 tag \in LegalTags(st) } : IsSuffix(p, buf)}
    IN  IF tails = {} THEN <<>>
        ELSE CHOOSE p \in tails : \A q \in tails : Len(q) <= Len(p)

\* C2: when the scan of a chunk that does not end the stream is over and the
\* buffer ends with a non-empty proper prefix of a tag legal in the current
\* mode, exactly that tail stays in the content buffer for the next chunk.
C2_PrefixWithheld ==
    [][(/\ EndLoop
        /\ finish_reason = None
        /\ PartialTagTail(state.content_buffer, state) # <<>>)
          => state'.content_buffer = PartialTagTail(state.content_buffer, state)]_vars

\* C3: a session that has ended has yielded exactly one [DONE], as its last
\* frame, and none before it ends; an error frame is yielded at most once and
\* nothing but [DONE] follows it; no step retracts a frame already yielded.
C3_DoneIsLast ==
    /\ [](pc = "done" => /\ out # <<>>
                         /\ Indexes("done") = {Len(out)})
    /\ [](pc # "done" => Indexes("done") = {})
    /\ [](/\ Cardinality(Indexes("error")) <= 1
          /\ \A i \in Indexes("error") :
                /\ pc \in {"finally", "done"}
                /\ i = IF pc = "done" THEN Len(out) - 1 ELSE Len(out))
    /\ [][IsPrefix(out, out')]_vars
    /\ [][Fault => out' = Append(out, ErrorEvent) /\ pc' = "finally"]_vars

C3_Witness ==
    /\ pc = "done"
    /\ Len(out) >= 3
    /\ out[Len(out) - 1].type = "error"
    /\ out[1].type = "content"

\* C4: the finish frame carries "tool_calls" exactly when a tool-call frame
\* (tag-derived or native) was yielded before it and the upstream reason was
\* "stop", or the upstream reason was "tool_calls"; otherwise it carries the
\* upstream reason.
C4_FinishClassification ==
    \A i \in Indexes("finish") :
        LET tool_call_before == \E j \in 1..(i - 1) : out[j].type \in ToolCallTypes
        IN  /\ finish_reason # None
            /\ out[i].reason = IF (tool_call_before /\ finish_reason = "stop")
                                   \/ finish_reason = "tool_calls"
                               THEN "tool_calls" ELSE finish_reason

C4_Witness ==
    \E i \in Indexes("finish") :
        /\ finish_reason = "stop"
        /\ out[i].reason = "tool_calls"
        /\ \E j \in 1..(i - 1) : out[j].type = "tool_name"

\* the frames that carry a choice delta, in order
IsDelta(e) == e.type \in DeltaTypes
Deltas == SelectSeq(out, IsDelta)

\* C5: at most one frame carries the role, it is the first frame of the
\* session, and a first frame that is a content, reasoning, tool-call or
\* native frame does carry it, also when the chunk it comes from has neither
\* role nor content.
C5_RoleOnFirstEvent ==
    /\ \A i \in 2..Len(Deltas) : Deltas[i].role = None
    /\ (Deltas # <<>> /\ Deltas[1].type \in TextTypes \cup ToolCallTypes)
          => Deltas[1].role # None

\* the scan is about to consume a </tool_call> that closes the open block
ClosesToolCall ==
    /\ pc = "scan"
    /\ processed_upto < Len(state.content_buffer)
    /\ state.in_tool_call_block
    /\ Find(state.content_buffer, TOOL_CLOSE, processed_upto) # -1
\* the text between the block's tags
BlockText ==
    state.tool_call_buffer
      \o Slice(state.content_buffer, processed_upto,
               Find(state.content_buffer, TOOL_CLOSE, processed_upto))
Decodable(text) == WellFormed(json_loads(text))

\* C6: closing a well-formed tool-call block yields exactly a name frame
\* followed by an arguments frame, both with the slot current_tool_call_index
\* had, which then grows by one; a name frame is always directly followed by
\* its arguments frame.
C6_WellFormedClose ==
    /\ [][(LoopIter /\ ClosesToolCall /\ Decodable(BlockText)) =>
            /\ Len(out') = Len(out) + 2
            /\ IsPrefix(out, out')
            /\ out'[Len(out) + 1].type = "tool_name"
            /\ out'[Len(out) + 2].type = "tool_args"
            /\ out'[Len(out) + 1].slot = state.current_tool_call_index
            /\ out'[Len(out) + 2].slot = state.current_tool_call_index
            /\ state'.current_tool_call_index = state.current_tool_call_index + 1]_vars
    /\ [](\A i \in Indexes("tool_name") :
            /\ i < Len(out)
            /\ out[i + 1].type = "tool_args"
            /\ out[i + 1].slot = out[i].slot)
    /\ [](\A i \in Indexes("tool_args") : i > 1 /\ out[i - 1].type = "tool_name")

C6_Witness ==
    \E i \in Indexes("tool_name") :
        /\ out[i].slot = 1
        /\ i < Len(out)
        /\ out[i + 1].type = "tool_args"
        /\ state.current_tool_call_index = 2

\* C7: closing a tool-call block whose text does not decode yields exactly one
\* content frame, the text between the tags wrapped in them again, and no
\* tool-call frame; the slot and the tool-call flag keep their values and the
\* session goes on.
C7_MalformedClose ==
    [][(LoopIter /\ ClosesToolCall /\ ~Decodable(BlockText)) =>
          /\ Len(out') = Len(out) + 1
          /\ IsPrefix(out, out')
          /\ out'[Len(out')].type = "content"
          /\ out'[Len(out')].text = TOOL_OPEN \o BlockText \o TOOL_CLOSE
          /\ state'.current_tool_call_index = state.current_tool_call_index
          /\ state'.streamed_tool_calls_exist = state.streamed_tool_calls_exist
          /\ pc' = "scan"]_vars

C7_Witness ==
    /\ \E i \in Indexes("content") : out[i].text = TOOL_OPEN \o NOARGS_JSON \o TOOL_CLOSE
    /\ Indexes("tool_name") = {}
    /\ Indexes("error") = {}
    /\ ~state.streamed_tool_calls_exist

\* C8: when the finish reason is handled inside a tool-call block whose buffer
\* is not empty, exactly one content frame, "<tool_call>" and the buffer, is
\* yielded, directly before the finish frame, and no tool-call frame.
C8_UnterminatedToolCall ==
    [][(EndLoop /\ finish_reason # None /\ state.in_tool_call_block
          /\ state.tool_call_buffer # <<>>) =>
          /\ Len(out') = Len(out) + 2
          /\ IsPrefix(out, out')
          /\ out'[Len(out) + 1].type = "content"
          /\ out'[Len(out) + 1].text = TOOL_OPEN \o state.tool_call_buffer
          /\ out'[Len(out) + 2].type = "finish"]_vars

C8_Witness ==
    /\ Len(out) >= 2
    /\ out[Len(out)].type = "finish"
    /\ out[Len(out) - 1].type = "content"
    /\ out[Len(out) - 1].text = TOOL_OPEN \o CALL_BLOCK
    /\ state.in_tool_call_block
    /\ Indexes("tool_name") = {}

\* the text between the outer tags of '<think>X</think>'
ThinkBody == Slice(delivered, Len(THINK_OPEN), Len(delivered) - Len(THINK_CLOSE))
\* the text received is '<think>X</think>', X not empty and without a tag
IsThinkInput ==
    /\ Len(delivered) > Len(THINK_OPEN) + Len(THINK_CLOSE)
    /\ IsPrefix(THINK_OPEN, delivered)
    /\ IsSuffix(THINK_CLOSE, delivered)
    /\ \A tag \in {THINK_OPEN, THINK_CLOSE, TOOL_OPEN, TOOL_CLOSE} :
          Find(ThinkBody, tag, 0) = -1

IsCarrier(e) == e.type \in TextTypes \cup {"tool_name", "tool_args", "native"}

C10_NativeBypass ==
    [][ReceiveNative =>
          /\ ~state'.in_think_block
          /\ ~state'.in_tool_call_block
          /\ state'.tool_call_buffer = <<>>
          /\ Len(out') = Len(out) + 1
          /\ IsPrefix(out, out')
          /\ out'[Len(out')].type = "native"
          /\ \A k \in DOMAIN out'[Len(out')].calls :
                \/ out'[Len(out')].calls[k] = NativeCall(NoneIndex)
                \/ out'[Len(out')].calls[k] = NativeCall(state.current_tool_call_index + k - 1)]_vars

\* C11: the slot counter starts at 0 and no step of a session lowers it.
C11_SlotNeverDecreases ==
    /\ (out = <<>> /\ nchunks = 0 => state.current_tool_call_index = 0)
    /\ [][state'.current_tool_call_index >= state.current_tool_call_index]_vars

\* the while loop of a chunk, run to its end
RECURSIVE RunLoop(_, _, _)
RunLoop(st, idx, role) ==
    IF idx >= Len(st.content_buffer)
    THEN [st |-> st, ev |-> <<>>]
    ELSE LET r == LoopBody(st, idx, role)
             rest == RunLoop(r.st, r.idx, role)
         IN  [st |-> rest.st, ev |-> r.ev \o rest.ev]

\* lines 111-236 for one chunk; brk: the for loop is left
ProcessChunk(st, chunk) ==
    IF chunk.tool_calls # <<>>
    THEN LET r == HandleNative(st, chunk.role, chunk.content, chunk.tool_calls)
         IN  [st |-> r.st, ev |-> r.ev, brk |-> FALSE]
    ELSE LET role == RoleForFirstDelta(st, chunk.role, chunk.content, <<>>)
             l == RunLoop([st EXCEPT !.content_buffer = @ \o chunk.content], 0, role)
             cut == [l.st EXCEPT !.content_buffer = <<>>]
         IN  IF chunk.finish # None
             THEN LET f == HandleFinish(cut, chunk.finish, role)
                  IN  [st |-> f.st, ev |-> l.ev \o f.ev, brk |-> TRUE]
             ELSE [st |-> cut, ev |-> l.ev, brk |-> FALSE]

\* a session run alone on the chunks: its state and its frames
RECURSIVE RunAlone(_, _)
RunAlone(st, chunks) ==
    IF chunks = <<>>
    THEN [st |-> st, ev |-> <<>>]
    ELSE LET r == ProcessChunk(st, Head(chunks))
             rest == IF r.brk THEN [st |-> r.st, ev |-> <<>>]
                     ELSE RunAlone(r.st, Tail(chunks))
         IN  [st |-> rest.st, ev |-> r.ev \o rest.ev]

\* between chunks and at its end, session s has the state and the frames of
\* a run alone on the chunks it received
AsAlone(s) ==
    LET alone == RunAlone(StreamingState, s.received)
    IN  /\ s.pc \in {"next", "finally"} => s.state = alone.st /\ s.out = alone.ev
        /\ s.pc = "done" => s.state = alone.st /\ s.out = Append(alone.ev, DoneEvent)

\* C12: of two sessions whose steps are interleaved in any order, each has,
\* between chunks and at its end, exactly the parse state and the frames it
\* has when it runs alone on the chunks it received.
C12_SessionIsolation == AsAlone(Running) /\ AsAlone(other)

C12_Witness ==
    /\ pc = "done"
    /\ other.pc = "done"
    /\ Len(received) = MaxPairChunks
    /\ Len(other.received) = MaxPairChunks
    /\ received # other.received
    /\ state.in_think_block
    /\ other.state.streamed_tool_calls_exist

\* C13: the session is never in a think block and in a tool-call block at
\* the same time.
C13_OneMode == ~(state.in_think_block /\ state.in_tool_call_block)

C13_Witness ==
    /\ state.in_think_block
    /\ ~state.in_tool_call_block
    /\ Indexes("tool_name") # {}
    /\ Indexes("native") # {}

\* the scan is about to consume a <tool_call> that opens a block
OpensToolCall ==
    /\ pc = "scan"
    /\ processed_upto < Len(state.content_buffer)
    /\ find_next_tag(state.content_buffer, processed_upto, state).action = "tool_call_open"
\* the offset of delivered at which the content buffer starts
BufferStart == Len(delivered) - Len(state.content_buffer)

\* C14: between chunks and at the end of the session a non-empty tool-call
\* buffer means the session is inside a tool-call block; the buffer is empty
\* right after every <tool_call> and right after every </tool_call>, whether
\* the block decoded or not; the text decoded at a </tool_call> is the text
\* received between the <tool_call> that opened the block and that tag.
C14_ToolCallBuffer ==
    /\ [](pc # "scan" /\ state.tool_call_buffer # <<>> => state.in_tool_call_block)
    /\ [][LoopIter /\ OpensToolCall =>
            state'.in_tool_call_block /\ state'.tool_call_buffer = <<>>]_vars
    /\ [][LoopIter /\ ClosesToolCall =>
            ~state'.in_tool_call_block /\ state'.tool_call_buffer = <<>>]_vars
    /\ [](ClosesToolCall =>
            /\ Slice(delivered, opened_at - Len(TOOL_OPEN), opened_at) = TOOL_OPEN
            /\ BlockText =
                 Slice(delivered, opened_at,
                       BufferStart + Find(state.content_buffer, TOOL_CLOSE, processed_upto)))

C14_Witness ==
    /\ pc = "next"
    /\ state.in_tool_call_block
    /\ state.tool_call_buffer = ARRAY_JSON
    /\ Indexes("tool_name") # {}
    /\ opened_at = Len(delivered) - Len(ARRAY_JSON)

\* the block text decodes to an object with an 'arguments' key and a 'name'
\* key whose value is a string
DecodableWithStringName(text) ==
    /\ Decodable(text)
    /\ json_loads(text).value.members["name"].kind = "string"

\* C15: closing a tool-call block yields a tool call exactly when the block
\* text decodes to an object with an 'arguments' key and a string 'name';
\* otherwise it yields the wrapped text as content and no tool call.
C15_DecodeNeedsStringName ==
    [][(LoopIter /\ ClosesToolCall) =>
          IF DecodableWithStringName(BlockText)
          THEN /\ Len(out') = Len(out) + 2
               /\ out'[Len(out) + 1].type = "tool_name"
          ELSE /\ Len(out') = Len(out) + 1
               /\ out'[Len(out) + 1].type = "content"
               /\ out'[Len(out) + 1].text = TOOL_OPEN \o BlockText \o TOOL_CLOSE]_vars

\* the texts of the frames i..j of out, joined
RECURSIVE TextOf(_, _)
TextOf(i, j) == IF i > j THEN <<>> ELSE out[i].text \o TextOf(i + 1, j)

\* C16: when the session has finished inside a think block, the text received
\* after the <think> that opened it is, character by character and in order,
\* the text of the reasoning frames yielded last before the finish frame; no
\* frame other than a chunk passed through as received stands among them.
C16_UnterminatedThink ==
    (pc \in {"finally", "done"} /\ state.in_think_block /\ Indexes("finish") # {})
        => \A f \in Indexes("finish") :
              \E first \in 1..f :
                 /\ \A i \in first..(f - 1) : out[i].type \in {"reasoning", "passthrough"}
                 /\ TextOf(first, f - 1) = Slice(delivered, opened_at, Len(delivered))

C16_Witness ==
    /\ pc = "done"
    /\ state.in_think_block
    /\ Indexes("finish") # {}
    /\ opened_at = Len(THINK_OPEN)
    /\ Slice(delivered, opened_at, Len(delivered)) = <<"a", "a">>
    /\ Cardinality(Indexes("reasoning")) = 2

\* the parse mode of a StreamingState
Mode(st) ==
    IF st.in_think_block THEN "InThink"
    ELSE IF st.in_tool_call_block THEN "InToolCall"
    ELSE "Plain"

\* C17: an iteration of the scan changes the mode only from Plain to InThink
\* or InToolCall, at the matching opening tag, and from InThink or InToolCall
\* back to Plain, at the matching closing tag; an iteration that stays inside
\* a block treats all the text it consumes as the block's text (reasoning
\* frame, or tool-call buffer); apart from the scan only a native chunk
\* changes the mode.
C17_ModeTransitions ==
    /\ [][LoopIter =>
            LET text == Slice(state.content_buffer, processed_upto, processed_upto')
                from == Mode(state)
                to == Mode(state')
            IN  /\ from # to =>
                      \/ from = "Plain" /\ to = "InThink" /\ IsSuffix(THINK_OPEN, text)
                      \/ from = "Plain" /\ to = "InToolCall" /\ IsSuffix(TOOL_OPEN, text)
                      \/ from = "InThink" /\ to = "Plain" /\ IsSuffix(THINK_CLOSE, text)
                      \/ from = "InToolCall" /\ to = "Plain" /\ IsSuffix(TOOL_CLOSE, text)
                /\ (from = "InThink" /\ to = "InThink") =>
                      /\ Len(out') = Len(out) + 1
                      /\ out'[Len(out')].type = "reasoning"
                      /\ out'[Len(out')].text = text
                /\ (from = "InToolCall" /\ to = "InToolCall") =>
                      /\ out' = out
                      /\ state'.tool_call_buffer = state.tool_call_buffer \o text]_vars
    /\ [][Mode(state') # Mode(state) => LoopIter \/ ReceiveNative]_vars

C17_Witness ==
    /\ state.in_think_block
    /\ \E i \in Indexes("reasoning") : out[i].text = TOOL_OPEN
    /\ \E i \in Indexes("reasoning") : out[i].text = TOOL_CLOSE

\* tag stands in buf at offset p
TagAt(buf, tag, p) == p + Len(tag) <= Len(buf) /\ Slice(buf, p, p + Len(tag)) = tag

Yielded == SubSeq(out', Len(out) + 1, Len(out'))

\* C19: an iteration of the scan yields for the span before the next tag: no
\* frame when the span is empty; exactly one reasoning frame with the span as
\* text inside a think block; exactly one content frame in plain mode; inside
\* a tool-call block no frame: the span is appended to the tool-call buffer,
\* and only a closing tag makes the iteration yield frames, for the block as
\* a whole.
C19_SegmentByMode ==
    [][LoopIter =>
          LET buf == state.content_buffer
              m == find_next_tag(buf, processed_upto, state)
              span == Slice(buf, processed_upto, Min(m.pos, Len(buf)))
          IN  /\ IsPrefix(out, out')
              /\ Mode(state) # "InToolCall" =>
                    IF span = <<>>
                    THEN Yielded = <<>>
                    ELSE /\ Len(Yielded) = 1
                         /\ Yielded[1].text = span
                         /\ Yielded[1].type =
                              IF Mode(state) = "InThink" THEN "reasoning" ELSE "content"
              /\ (Mode(state) = "InToolCall" /\ ~ClosesToolCall) =>
                    /\ Yielded = <<>>
                    /\ state'.tool_call_buffer = state.tool_call_buffer \o span
              /\ (Mode(state) = "InToolCall" /\ ClosesToolCall) =>
                    \/ /\ Len(Yielded) = 2
                       /\ Yielded[1].type = "tool_name"
                       /\ Yielded[2].type = "tool_args"
                    \/ /\ Len(Yielded) = 1
                       /\ Yielded[1].type = "content"
                       /\ Yielded[1].text =
                            TOOL_OPEN \o state.tool_call_buffer \o span \o TOOL_CLOSE]_vars

C19_Witness ==
    /\ pc = "next"
    /\ state.in_tool_call_block
    /\ state.tool_call_buffer = CALL_BLOCK
    /\ Len(out) = 1
    /\ out[1].type = "content"
    /\ out[1].text = <<"a">>

\* C20: between chunks and at the end of the session streamed_tool_calls_exist
\* is true exactly when a tool-call name frame or a native tool-call frame
\* has been yielded; no step makes it false again.
C20_ToolCallFlagExact ==
    /\ [](pc # "scan" =>
            (state.streamed_tool_calls_exist
                <=> Indexes("tool_name") \cup Indexes("native") # {}))
    /\ [][state.streamed_tool_calls_exist => state'.streamed_tool_calls_exist]_vars

C20_Witness ==
    /\ pc = "next"
    /\ state.streamed_tool_calls_exist
    /\ Indexes("native") # {}
    /\ Indexes("tool_name") = {}
    /\ Indexes("content") # {}

\* the slots of the native tool calls of frame j that came with an index
NativeSlots(j) ==
    {out[j].calls[k].index : k \in DOMAIN out[j].calls} \ {NoneIndex}

\* C21: no two tag-derived tool calls are yielded with the same slot, and no
\* tag-derived tool call is yielded with the slot of a native one.
C21_SlotsUnique ==
    /\ \A i, j \in Indexes("tool_name") : i # j => out[i].slot # out[j].slot
    /\ \A i \in Indexes("tool_name") :
          \A j \in Indexes("native") : out[i].slot \notin NativeSlots(j)

\* C22: a session that received a chunk carrying a finish reason and ended
\* without a fault has emitted a finish frame before its [DONE] frame.
C22_FinishProduced ==
    (pc = "done" /\ finish_seen /\ Indexes("error") = {}) =>
        \E i \in Indexes("finish") : \E j \in Indexes("done") : i < j

\* C23: a session yields at most one finish frame; once it is yielded no
\* further upstream chunk is received and the parse state stays as it is, and
\* the only frame after it is the [DONE] frame.
C23_FinishTerminal ==
    /\ [](/\ Cardinality(Indexes("finish")) <= 1
          /\ \A i \in Indexes("finish") :
                /\ pc \in {"finally", "done"}
                /\ \A j \in DOMAIN out : j > i => out[j].type = "done" /\ j = i + 1)
    /\ [][Indexes("finish") # {} =>
            /\ nchunks' = nchunks
            /\ delivered' = delivered
            /\ state' = state
            /\ Done]_vars

C23_Witness ==
    /\ pc = "done"
    /\ nchunks < MaxChunks
    /\ Len(out) >= 3
    /\ out[Len(out) - 1].type = "finish"
    /\ out[Len(out)].type = "done"

\* C24: the content that arrives in a chunk with native tool calls is kept in
\* content_buffer until it is yielded: no later chunk discards it, and a
\* session that ends without a fault has nothing left in content_buffer.
C24_NativeContentKept ==
    /\ [][ReceiveNative =>
            IsPrefix(state.content_buffer, state'.content_buffer)]_vars
    /\ []((pc = "done" /\ Indexes("error") = {}) => state.content_buffer = <<>>)

\* the four tag literals
TagLiterals == {THINK_OPEN, THINK_CLOSE, TOOL_OPEN, TOOL_CLOSE}

\* no cut of the delivered text falls strictly inside an occurrence of a tag
Untorn ==
    \A t \in TagLiterals : \A p \in 0..(Len(delivered) - Len(t)) :
        Slice(delivered, p, p + Len(t)) = t =>
            \A c \in cuts : ~(p < c /\ c < p + Len(t))

\* the delivered text processed as a single fragment, with the finish reason
\* of the session's last chunk
AsOneFragment ==
    ProcessChunk(StreamingState,
                 [role |-> None, content |-> delivered, tool_calls |-> <<>>,
                  finish |-> finish_reason])

\* C25: between chunks and at the end of a session whose fragments do not cut
\* any tag occurrence, the content text, reasoning text and tool calls carried,
\* the mode and tool_call_buffer are those of the whole text processed as a
\* single fragment.
C25_SplitInvarianceUntorn ==
    (pc \in {"next", "finally", "done"} /\ Untorn) =>
        /\ Carried(out) = Carried(AsOneFragment.ev)
        /\ Mode(state) = Mode(AsOneFragment.st)
        /\ state.tool_call_buffer = AsOneFragment.st.tool_call_buffer

C25_Witness ==
    /\ pc = "done"
    /\ Untorn
    /\ Len(TOOL_OPEN) \in cuts
    /\ Len(delivered) > Len(TOOL_OPEN)
    /\ Indexes("tool_name") # {}

(***************************************************************************)
(* The non-streaming path.  chat_completions hands the upstream message of *)
(* each choice to process_non_streaming_response, which parses its content *)
(* with the batch transcoder and chooses the tool calls and the finish     *)
(* reason of the answer.  An absent value (None) and an empty one are both *)
(* the empty sequence: the code tests them by truth value only.            *)
(***************************************************************************)
\* the content spans of the frames, concatenated in order
RECURSIVE ContentOf(_)
ContentOf(evs) ==
    IF evs = <<>> THEN <<>>
    ELSE (IF Head(evs).type = "content" THEN Head(evs).text ELSE <<>>)
             \o ContentOf(Tail(evs))

\* the think bodies of the frames, each trimmed, joined with newlines
RECURSIVE ReasoningOf(_)
ReasoningOf(evs) ==
    IF evs = <<>> THEN <<>>
    ELSE LET rest == ReasoningOf(Tail(evs))
         IN  IF Head(evs).type # "reasoning" THEN rest
             ELSE IF rest = <<>> THEN Strip(Head(evs).text)
             ELSE Strip(Head(evs).text) \o <<"\n">> \o rest

\* one ToolCall for every well-formed tool-call block, in order
ToolCallsOf(evs) ==
    LET names == SelectSeq(evs, LAMBDA e : e.type = "tool_name")
        args == SelectSeq(evs, LAMBDA e : e.type = "tool_args")
    IN  [i \in 1..Len(names) |->
            [type |-> "function", name |-> names[i].name,
             arguments |-> IF i <= Len(args) THEN args[i].arguments ELSE <<>>]]

\* the result of the batch transcoder from the final state and the frames r of
\* the scan of the text: the block the text leaves unterminated is left
\* verbatim in the cleaned content
FromScan(r, text) ==
    LET last == r.ev[Len(r.ev)]
        body == IF /\ r.st.in_think_block
                   /\ r.ev # <<>>
                   /\ last.type = "reasoning"
                   /\ IsSuffix(THINK_OPEN \o last.text, text)
                THEN last.text
                ELSE <<>>
        closed == IF body # <<>> THEN SubSeq(r.ev, 1, Len(r.ev) - 1) ELSE r.ev
        tail == IF r.st.in_tool_call_block THEN TOOL_OPEN \o r.st.tool_call_buffer
                ELSE IF r.st.in_think_block THEN THINK_OPEN \o body
                ELSE <<>>
    IN  [cleaned_content |-> Strip(ContentOf(closed) \o tail),
         parsed_tool_calls |-> ToolCallsOf(closed),
         reasoning_content |-> ReasoningOf(closed)]

\* what ContentParser.parse_and_clean_content returns: the cleaned content,
\* the tool calls and the reasoning
parsed_data(text) == FromScan(parse_and_clean_content(text), text)

\* variant: the native tool calls of the message come first
final_choice_NativeFirst(parsed, original_finish_reason, message) ==
    LET role == IF message.role # None THEN message.role ELSE "assistant"
    IN  IF message.tool_calls # <<>>
        THEN [message |-> [role |-> role, content |-> parsed.cleaned_content,
                           reasoning_content |-> parsed.reasoning_content,
                           tool_calls |-> [i \in DOMAIN message.tool_calls |->
                                              model_dump(message.tool_calls[i])]],
              finish_reason |-> original_finish_reason]
        ELSE IF parsed.parsed_tool_calls # <<>>
        THEN [message |-> [role |-> role, content |-> parsed.cleaned_content,
                           reasoning_content |-> parsed.reasoning_content,
                           tool_calls |-> parsed.parsed_tool_calls],
              finish_reason |-> "tool_calls"]
        ELSE [message |-> [role |-> role, content |-> parsed.cleaned_content,
                           reasoning_content |-> parsed.reasoning_content,
                           tool_calls |-> <<>>],
              finish_reason |-> original_finish_reason]

\* openai_handler.py lines 44-86: the message dictionary and the finish reason
\* from the parsed data
final_choice(parsed, original_finish_reason, message) ==
    LET role == IF message.role # None THEN message.role ELSE "assistant"
    IN  IF parsed.parsed_tool_calls # <<>>
        THEN [message |-> [role |-> role, content |-> parsed.cleaned_content,
                           reasoning_content |-> parsed.reasoning_content,
                           tool_calls |-> parsed.parsed_tool_calls],
              finish_reason |-> "tool_calls"]
        ELSE IF message.tool_calls # <<>>
        THEN [message |-> [role |-> role, content |-> parsed.cleaned_content,
                           reasoning_content |-> parsed.reasoning_content,
                           tool_calls |-> [i \in DOMAIN message.tool_calls |->
                                              model_dump(message.tool_calls[i])]],
              finish_reason |-> original_finish_reason]
        ELSE [message |-> [role |-> role, content |-> parsed.cleaned_content,
                           reasoning_content |-> parsed.reasoning_content,
                           tool_calls |-> <<>>],
              finish_reason |-> original_finish_reason]

\* openai_handler.py lines 25-86
process_non_streaming_response(original_content, original_finish_reason, message) ==
    final_choice(parsed_data(original_content), original_finish_reason, message)

\* the upstream answers the request with one choice: its message and its
\* finish reason
ReceiveResponse ==
    /\ ~response.answered
    /\ \E content \in Inputs, finish \in FinishReasons,
          native \in {<<>>} \cup NativeCallLists, role \in Roles :
          response' = [response EXCEPT !.content = content, !.finish = finish,
                                       !.native = native, !.role = role,
                                       !.answered = TRUE]
    /\ UNCHANGED <<state, pc, out, role_to_yield, finish_reason, processed_upto,
                   delivered, cuts, nchunks, opened_at, received, other, finish_seen>>

\* chat.py lines 59-66: the processed choice is put into the answer
Answered(resp, r) ==
    [resp EXCEPT !.message = r.message, !.finish_reason = r.finish_reason,
                 !.returned = TRUE]

\* chat.py lines 48-66: the choice is processed and put into the answer
Respond ==
    /\ response.answered
    /\ ~response.returned
    /\ response' = Answered(response,
                            process_non_streaming_response(
                                response.content, response.finish,
                                [role |-> response.role, tool_calls |-> response.native]))
    /\ UNCHANGED <<state, pc, out, role_to_yield, finish_reason, processed_upto,
                   delivered, cuts, nchunks, opened_at, received, other, finish_seen>>

\* A request answered without streaming.
BatchNext ==
    \/ ReceiveResponse
    \/ Respond

BatchSpec == Init /\ [][BatchNext]_vars

\* C26: the answer of process_non_streaming_response has exactly the
\* tag-derived tool calls and the finish reason 'tool_calls' when the content
\* holds a well-formed tool-call block; otherwise exactly the native tool
\* calls of the upstream message, if it has any, and else none, with the
\* upstream finish reason unchanged.  It never has tool calls of both kinds.
C26_BatchSelection ==
    response.returned =>
        LET tagged == parsed_data(response.content).parsed_tool_calls
            native == response.native
            returned == response.message.tool_calls
            Of(calls) == {calls[i] : i \in DOMAIN calls}
        IN  /\ tagged # <<>> =>
                  returned = tagged /\ response.finish_reason = "tool_calls"
            /\ (tagged = <<>> /\ native # <<>>) =>
                  returned = native /\ response.finish_reason = response.finish
            /\ (tagged = <<>> /\ native = <<>>) =>
                  returned = <<>> /\ response.finish_reason = response.finish
            /\ Of(returned) \cap Of(tagged) = {} \/ Of(returned) \cap Of(native) = {}

C26_Witness ==
    /\ response.returned
    /\ response.native # <<>>
    /\ response.finish = "stop"
    /\ response.finish_reason = "tool_calls"
    /\ Len(response.message.tool_calls) = 1
    /\ response.message.tool_calls[1].name.str = <<"f">>

\* A session of content chunks whose generator is run on: an iteration of the
\* while loop that can be taken is taken, and the loop is left when its
\* condition is false.
ScanNext ==
    \/ ReceiveChunk
    \/ LoopIter
    \/ EndLoop
    \/ Exhaust
    \/ Done

\* the while condition of line 165 holds
LoopCondition == pc = "scan" /\ processed_upto < Len(state.content_buffer)

\* weak fairness of LoopIter, its enabling condition written out: LoopIter can
\* be taken exactly when the while condition holds
LoopIterFair == []<>(~LoopCondition) \/ []<><<LoopIter>>_vars

FairSpec == Init /\ [][ScanNext]_vars /\ LoopIterFair /\ WF_vars(EndLoop)

\* C27: every iteration of the scan loop moves the consumed offset forward,
\* either past a whole tag or to the end of content_buffer, never beyond it,
\* and leaves content_buffer as it is; so the loop of a chunk is left after
\* finitely many iterations.
C27_ScanLoopTerminates ==
    /\ [][LoopIter =>
            /\ state'.content_buffer = state.content_buffer
            /\ processed_upto' > processed_upto
            /\ processed_upto' <= Len(state.content_buffer)
            /\ \/ processed_upto' = Len(state.content_buffer)
               \/ \E t \in TagLiterals :
                     /\ processed_upto' - Len(t) >= processed_upto
                     /\ Slice(state.content_buffer, processed_upto' - Len(t),
                              processed_upto') = t]_vars
    /\ (pc = "scan") ~> (pc # "scan")

C27_Witness ==
    /\ pc = "scan"
    /\ state.content_buffer = TOOL_OPEN \o CALL_BLOCK \o TOOL_CLOSE
    /\ processed_upto = Len(TOOL_OPEN \o CALL_BLOCK \o TOOL_CLOSE)
    /\ ~state.in_tool_call_block
    /\ state.current_tool_call_index = 1

\* C28: a chunk without choices is passed through as exactly one frame and
\* leaves the whole StreamingState as it is; a passthrough frame is yielded
\* for such a chunk only.
C28_MetaFrameEffect ==
    /\ [][ReceiveMeta =>
            /\ out' = Append(out, PassthroughEvent)
            /\ state' = state]_vars
    /\ [][(Len(out') > Len(out) /\ out'[Len(out')].type = "passthrough") =>
            /\ Len(out') = Len(out) + 1
            /\ state' = state]_vars

C28_Witness ==
    /\ state.in_tool_call_block
    /\ state.role_sent
    /\ state.current_tool_call_index = 1
    /\ state.streamed_tool_calls_exist
    /\ out # <<>>
    /\ out[Len(out)].type = "passthrough"

\* the frames a step has added to out
NewFrames == SubSeq(out', Len(out) + 1, Len(out'))

\* the text of the frames, concatenated
RECURSIVE TextIn(_)
TextIn(evs) == IF evs = <<>> THEN <<>> ELSE Head(evs).text \o TextIn(Tail(evs))

====
